---- MODULE Spec2Model ----
(***************************************************************************)
(* Model of notebooks/05_operationalize/als_movie_o16n.ipynb: the          *)
(* straight-line provisioning / training / deployment pipeline of the      *)
(* notebook, the document store it fills, and the generated scoring        *)
(* script (init / run) that the deployed web service executes.             *)
(***************************************************************************)
EXTENDS Integers, Sequences, FiniteSets, TLC

(***************************************************************************)
(* Bounds of the model.                                                    *)
(***************************************************************************)
\* number of distinct movies of the (synthetic) rating dataset
NumItems == 11
\* the fitted factor models considered are numbered 0..MaxOffset
MaxOffset == 1
\* number of times the notebook is executed from its first cell
MaxRuns == 2

\* how many of the sixteen hexadecimal digits a UUID is drawn from
NumHex == 3

(***************************************************************************)
(* Program constants.                                                      *)
(***************************************************************************)
\* model.recommendForAllUsers(10)
NumRecs == 10
DOCUMENTDB_DATABASE == "recommendations"
algo == "als"
DOCUMENTDB_COLLECTION == "user_recommendations_" \o algo
userCol == "UserId"
itemCol == "MovieId"

\* users of the rating dataset (UserId is an IntegerType column)
Users == {7, 496}
Items == 1..NumItems

(***************************************************************************)
(* Python values.  Every value is a record tagged by t, so that values of  *)
(* different Python types can be compared.  A str carries its characters   *)
(* and, in json, what json.loads makes of those characters.                *)
(***************************************************************************)
NotJson == [t |-> "malformed"]
PyInt(n) == [t |-> "int", n |-> n]
PyStr(chars, json) == [t |-> "str", chars |-> chars, json |-> json]
PyList(elems) == [t |-> "list", elems |-> elems]
\* a dict with at most the key 'id' (has = FALSE: no such key)
PyDict(has, id) == [t |-> "dict", has |-> has, id |-> id]
PyNone == [t |-> "none"]

Ok(v) == [ok |-> TRUE, v |-> v]
Raise(type, msg) == [ok |-> FALSE, type |-> type, msg |-> msg]

Digit(d) ==
  CASE d = 0 -> "0" [] d = 1 -> "1" [] d = 2 -> "2" [] d = 3 -> "3"
    [] d = 4 -> "4" [] d = 5 -> "5" [] d = 6 -> "6" [] d = 7 -> "7"
    [] d = 8 -> "8" [] d = 9 -> "9"

\* decimal string of a non-negative integer: Python's str(int) and Spark's
\* cast("string") of an IntegerType column
RECURSIVE IntToString(_)
IntToString(n) ==
  IF n < 10 THEN Digit(n) ELSE IntToString(n \div 10) \o Digit(n % 10)

\* str(x) / '{0}'.format(x) of the values an id can take
str(x) ==
  CASE x.t = "str" -> x.chars
    [] x.t = "int" -> IntToString(x.n)
    [] x.t = "none" -> "None"
    [] x.t = "list" -> "[...]"
    [] x.t = "dict" -> "{...}"

\* json.loads(s)
json_loads(s) ==
  IF s.t # "str"
    THEN Raise("TypeError", "the JSON object must be str, bytes or bytearray")
    ELSE IF s.json.t = "malformed"
      THEN Raise("JSONDecodeError", "Expecting value: line 1 column 1 (char 0)")
      ELSE Ok(s.json)

\* x[0]
getitem0(x) ==
  CASE x.t = "list" ->
         IF Len(x.elems) = 0 THEN Raise("IndexError", "list index out of range")
                             ELSE Ok(x.elems[1])
    [] x.t = "dict" -> Raise("KeyError", "0")
    \* the first character of a str: a one-character str, no JSON text here
    [] x.t = "str" -> Ok(PyStr("?", NotJson))
    [] OTHER -> Raise("TypeError", "object is not subscriptable")

\* x['id']
getitem_id(x) ==
  CASE x.t = "dict" -> IF x.has THEN Ok(x.id) ELSE Raise("KeyError", "'id'")
    [] x.t = "list" -> Raise("TypeError", "list indices must be integers or slices, not str")
    [] x.t = "str" -> Raise("TypeError", "string indices must be integers")
    [] OTHER -> Raise("TypeError", "object is not subscriptable")

\* json.dumps(s) of a str without characters that need escaping
json_dumps(s) == "\"" \o s \o "\""

\* id = json.loads(json.loads(input_json)[0])['id']
DecodeId(input_json) ==
  LET a == json_loads(input_json) IN
  IF ~a.ok THEN a ELSE
  LET b == getitem0(a.v) IN
  IF ~b.ok THEN b ELSE
  LET c == json_loads(b.v) IN
  IF ~c.ok THEN c ELSE getitem_id(c.v)


(***************************************************************************)
(* Request bodies handed to run.                                           *)
(***************************************************************************)
\* '{"id": <v>}' as JSON text, v a str or an int
IdObjectText(v) ==
  IF v.t = "str"
    THEN PyStr("{\"id\":\"" \o v.chars \o "\"}", PyDict(TRUE, v))
    ELSE PyStr("{\"id\":" \o str(v) \o "}", PyDict(TRUE, v))

\* the characters of text inside a JSON string (its quotes escaped), for
\* the object texts used here
Escaped(text) ==
  IF text.json.t = "dict" /\ text.json.has
    THEN IF text.json.id.t = "str"
           THEN "{\\\"id\\\":\\\"" \o text.json.id.chars \o "\\\"}"
           ELSE "{\\\"id\\\":" \o str(text.json.id) \o "}"
    ELSE "{\\\"user\\\":\\\"496\\\"}"

\* '["<text>"]': a JSON array whose single element is a JSON string
Envelope(text) == PyStr("[\"" \o Escaped(text) \o "\"]", PyList(<<text>>))

IdStr(chars) == PyStr(chars, NotJson)

input_data_object == IdObjectText(IdStr("496"))

\* input_data of the HTTP client snippet: '["{\"id\":\"496\"}"]'
input_data == Envelope(IdObjectText(IdStr("496")))

LookupInputs ==
  { Envelope(IdObjectText(IdStr(IntToString(u)))) : u \in Users }
    \cup { Envelope(IdObjectText(PyInt(7))),
           Envelope(IdObjectText(IdStr("999"))) }

ErrorInputs ==
  { PyStr("id=496", NotJson),
    IdObjectText(IdStr("496")),
    Envelope(PyStr("{\"user\":\"496\"}", PyDict(FALSE, PyNone))),
    PyStr("[]", PyList(<< >>)),
    PyStr("[{\"id\":\"496\"}]", PyList(<<PyDict(TRUE, IdStr("496"))>>)) }

Inputs == LookupInputs \cup ErrorInputs

(***************************************************************************)
(* Rating data, the fitted model and its recommendations.                  *)
(***************************************************************************)
\* the rating dataset: user 7 rated movies 1 and 2, user 496 every movie
\* but the first
Data ==
  { <<7, i>> : i \in {1, 2} } \cup { <<496, i>> : i \in 2..NumItems }

\* the training sets a split of Data may produce: all ratings of a
\* non-empty set of users
Splits ==
  { { r \in Data : r[1] \in S } : S \in (SUBSET Users) \ {{}} }

NoModel == [off |-> 0, users |-> {}, items |-> {}]

\* als.fit(train): factors for the users and items of train; off numbers
\* the fitted model
Fit(tr, off) ==
  [off |-> off, users |-> { r[1] : r \in tr }, items |-> { r[2] : r \in tr }]

\* the model's predicted rating of item i for user u (distinct items of one
\* user get distinct predictions)
Prediction(m, u, i) == (i + m.off + u) % NumItems

\* the k items of S with the highest prediction for u, best first
RECURSIVE TopK(_, _, _, _)
TopK(m, u, S, k) ==
  IF k = 0 \/ S = {} THEN << >>
  ELSE LET best == CHOOSE i \in S :
                     \A j \in S : Prediction(m, u, j) <= Prediction(m, u, i)
       IN <<[MovieId |-> best, rating |-> Prediction(m, u, best)]>>
            \o TopK(m, u, S \ {best}, k - 1)

recommendForAllUsersWrong(m, k) ==
  { [UserId |-> u, recommendations |-> TopK(m, u, m.items, k + 1)] : u \in m.users }

\* model.recommendForAllUsers(k)
recommendForAllUsers(m, k) ==
  { [UserId |-> u, recommendations |-> TopK(m, u, m.items, k)] : u \in m.users }

\* recs.withColumn("id", recs[userCol].cast("string"))
\*     .select("id", "recommendations." + itemCol)
SelectIdItems(recs) ==
  { [id |-> IntToString(r.UserId),
     MovieId |-> [j \in 1..Len(r.recommendations) |-> r.recommendations[j].MovieId]]
    : r \in recs }

\* the Rating column of the rating (u, i) of the dataset; never null
RatingOf(u, i) == ((u + i) % 5) + 1

\* the rows of the DataFrame train
TrainRows(tr) ==
  { [UserId |-> r[1], MovieId |-> r[2], Rating |-> RatingOf(r[1], r[2])] : r \in tr }

\* users = train.select('UserId').distinct()
\* items = train.select('MovieId').distinct()
\* user_item = users.crossJoin(items)
user_item(tr) ==
  LET users == { r.UserId : r \in TrainRows(tr) }
      items == { r.MovieId : r \in TrainRows(tr) }
  IN { [UserId |-> u, MovieId |-> i] : u \in users, i \in items }

\* dfs_pred = model.transform(user_item); coldStartStrategy='drop' drops the
\* rows whose user or item the model has no factors for
transform(m, rows) ==
  { [UserId |-> r.UserId, MovieId |-> r.MovieId,
     prediction |-> Prediction(m, r.UserId, r.MovieId)]
    : r \in { x \in rows : x.UserId \in m.users /\ x.MovieId \in m.items } }

\* (dfs_pred['UserId'] == train['UserId']) & (dfs_pred['MovieId'] == train['MovieId'])
JoinCondition(p, t) == p.UserId = t.UserId /\ p.MovieId = t.MovieId

JoinInner(L, R) ==
  { [pred |-> {x[1]}, train |-> {x[2]}]
    : x \in { y \in L \X R : JoinCondition(y[1], y[2]) } }

\* dfs_pred.alias("pred").join(train.alias("train"), ..., how='outer'): a
\* joined row holds the row of each side, or none ({}) where the columns of
\* that side are null
Join(L, R) ==
  { [pred |-> {x[1]}, train |-> {x[2]}]
    : x \in { y \in L \X R : JoinCondition(y[1], y[2]) } }
  \cup { [pred |-> {p}, train |-> {}]
         : p \in { q \in L : \A t \in R : ~JoinCondition(q, t) } }
  \cup { [pred |-> {}, train |-> {t}]
         : t \in { q \in R : \A p \in L : ~JoinCondition(p, q) } }

\* .filter(dfs_pred_exclude_train["train.Rating"].isNull())
FilterRatingIsNull(rows) == { r \in rows : r.train = {} }

\* .select('pred.UserId', 'pred.MovieId', 'pred.prediction'); the columns
\* of a row without pred side are null, written 0 - 1
SelectPred(rows) ==
  { IF r.pred = {}
      THEN [UserId |-> 0 - 1, MovieId |-> 0 - 1, prediction |-> 0 - 1]
      ELSE CHOOSE p \in r.pred : TRUE
    : r \in rows }

\* top_all of section 2.3
top_all(tr, m) ==
  SelectPred(FilterRatingIsNull(Join(transform(m, user_item(tr)), TrainRows(tr))))

(***************************************************************************)
(* The document store: a set of documents, each under its link and its     *)
(* partition key (the collection is partitioned by /id).                   *)
(***************************************************************************)
\* the address of the document id of collection coll of database db
ResourceLink(db, coll, id) ==
  "dbs/" \o db \o "/colls/" \o coll \o "/docs/" \o id

\* the secrets written to secrets_path
secrets ==
  [Endpoint |-> "endpoint", Masterkey |-> "master_key",
   Database |-> DOCUMENTDB_DATABASE, Collection |-> DOCUMENTDB_COLLECTION,
   Upsert |-> "true"]

\* the document the connector stores for one row, in the collection that
\* writeConfig names
ToDocument(writeConfig, row) ==
  [link |-> ResourceLink(writeConfig.Database, writeConfig.Collection, row.id),
   pk |-> row.id, id |-> row.id, MovieId |-> row.MovieId]

SameKey(a, b) == a.link = b.link /\ a.pk = b.pk

UpsertKeepOld(st, docs) ==
  st \cup { d \in docs : \A x \in st : ~SameKey(x, d) }

\* "Upsert": "true": a document replaces the one stored under its key
Upsert(st, docs) ==
  { x \in st : \A d \in docs : ~SameKey(x, d) } \cup docs

\* client.ReadDocument(document_link, {'partitionKey': pk})
ReadDocument(st, link, pk) ==
  LET found == { d \in st : d.link = link /\ d.pk = pk } IN
  IF found = {} THEN Raise("HTTPFailure", "Status code: 404")
  ELSE Ok(CHOOSE d \in found : TRUE)

RECURSIVE ReprItems(_)
ReprItems(s) ==
  IF Len(s) = 0 THEN ""
  ELSE IF Len(s) = 1 THEN IntToString(s[1])
  ELSE IntToString(s[1]) \o ", " \o ReprItems(Tail(s))

\* str(document): the repr of the dict (system properties left out)
Repr(d) ==
  "{'id': '" \o d.id \o "', 'MovieId': [" \o ReprItems(d.MovieId) \o "]}"

(***************************************************************************)
(* The generated scoring script score_sparkml.py.                          *)
(***************************************************************************)
Unset == [t |-> "unset"]
TheCollection == [t |-> "collection"]
Exc(type, msg) == [t |-> "exc", type |-> type, msg |-> msg]

\* what init can meet: "ok", the DocumentClient cannot be built
\* ("client_fails"), or the client is built and ReadCollection raises
\* ("read_fails")
InitOutcomes == {"ok", "client_fails", "read_fails"}

InitError(outcome) ==
  IF outcome = "client_fails"
    THEN Exc("ImportError", "No module named 'pydocumentdb'")
    ELSE Exc("HTTPFailure", "Status code: 401")

\* init(): the globals client (defined or not) and collection it leaves
init(outcome) ==
  [client |-> outcome # "client_fails",
   collection |-> IF outcome = "ok" THEN TheCollection ELSE InitError(outcome)]

\* the exception classes of the script's paths; all derive from Exception
ExceptionClasses ==
  {"TypeError", "JSONDecodeError", "KeyError", "IndexError", "NameError",
   "HTTPFailure"}

ExceptKeyErrorOnly(type) == type = "KeyError"

\* except Exception as e
ExceptException(type) == type \in ExceptionClasses

LookupsTwice(link, pk) == << [link |-> link, pk |-> pk], [link |-> link, pk |-> pk] >>

\* the reads run issues once it holds a client: one ReadDocument
Lookups(link, pk) == << [link |-> link, pk |-> pk] >>

document_link_other_collection(id) ==
  "dbs/" \o DOCUMENTDB_DATABASE \o "/colls/user_recommendations/docs/" \o str(id)

\* document_link = 'dbs/{DOCUMENTDB_DATABASE}/colls/{DOCUMENTDB_COLLECTION}/docs/{0}'
\*     .format(id), the two names filled in when the script was generated
document_link(id) ==
  "dbs/" \o DOCUMENTDB_DATABASE \o "/colls/" \o DOCUMENTDB_COLLECTION
    \o "/docs/" \o str(id)

\* options = {'partitionKey': str(id)}
PartitionKey(id) == str(id)

\* the try block of run: the exception or the result it ends with, and the
\* reads and queries it issued.  down: the store refuses this read (only
\* a client whose init could not read the collection meets that)
RunTry(input_json, clientDefined, st, down) ==
  LET id == DecodeId(input_json) IN
  IF ~id.ok THEN [out |-> id, lookups |-> << >>, queries |-> 0]
  ELSE
    LET link == document_link(id.v)
        pk == PartitionKey(id.v)
    IN IF ~clientDefined
         THEN [out |-> Raise("NameError", "name 'client' is not defined"),
               lookups |-> << >>, queries |-> 0]
         ELSE [out |-> IF down THEN Raise("HTTPFailure", "Status code: 401")
                       ELSE ReadDocument(st, link, pk),
               lookups |-> Lookups(link, pk), queries |-> 0]

\* run(input_json): what the call ends with.  propagated: an exception left
\* run; otherwise response is the returned value
run(input_json, clientDefined, st, down) ==
  LET try == RunTry(input_json, clientDefined, st, down)
      out == try.out
  IN IF out.ok
       THEN [t |-> "call", input |-> input_json, lookups |-> try.lookups,
             queries |-> try.queries, error |-> "", propagated |-> FALSE,
             response |-> json_dumps(Repr(out.v))]
       ELSE IF ExceptException(out.type)
         THEN [t |-> "call", input |-> input_json, lookups |-> try.lookups,
               queries |-> try.queries, error |-> out.msg, propagated |-> FALSE,
               response |-> json_dumps(out.msg)]
         ELSE [t |-> "call", input |-> input_json, lookups |-> try.lookups,
               queries |-> try.queries, error |-> out.msg, propagated |-> TRUE,
               response |-> ""]

NoCall ==
  [t |-> "none", input |-> PyNone, lookups |-> << >>, queries |-> 0,
   error |-> "", propagated |-> FALSE, response |-> ""]

(***************************************************************************)
(* The names the notebook selects.  A Python str is the sequence of its    *)
(* characters here, so that replace, slicing and len act on characters.    *)
(***************************************************************************)
HexDigits ==
  <<"0", "1", "2", "3", "4", "5", "6", "7", "8", "9", "a", "b", "c", "d",
    "e", "f">>

\* the digits a UUID is drawn from: 0, 7, e, 5, ...
UuidChars == { HexDigits[((7 * i) % 16) + 1] : i \in 0..(NumHex - 1) }

\* str(uuid.uuid4()), as far as its first five characters
Uuid4 == [1..5 -> UuidChars]

min(a, b) == IF a < b THEN a ELSE b

\* s[lo:hi] for 0 <= lo and 0 <= hi
Slice(s, lo, hi) == SubSeq(s, lo + 1, min(hi, Len(s)))

\* s.replace(old, new) for one-character old and new
replace(s, old, new) == [i \in 1..Len(s) |-> IF s[i] = old THEN new ELSE s[i]]

data == <<"m", "v", "l">>

account_name_line178(resource_group, prefix) == resource_group \o <<"-", "d", "s", "-", "s", "q", "l">>

\* account_name, as lines 178 and 180 leave it
AccountName(resource_group, prefix) ==
  Slice(replace(resource_group \o <<"-", "d", "s", "-", "s", "q", "l">>, "_", "-"),
        0, min(31, Len(prefix)))

\* "https://" + account_name + ".documents.azure.com:443/"
Endpoint(account_name) ==
  <<"h", "t", "t", "p", "s", ":", "/", "/">> \o account_name \o
  <<".", "d", "o", "c", "u", "m", "e", "n", "t", "s", ".", "a", "z", "u", "r", "e", ".", "c", "o", "m", ":", "4", "4", "3", "/">>

NoNames ==
  [short_uuid |-> << >>, prefix |-> << >>, resource_group |-> << >>,
   account_name |-> << >>, model_name |-> << >>]

\* the variables of the two name cells, for the UUID text u
SelectedNames(u) ==
  LET short_uuid == Slice(u, 0, 4)
      prefix == <<"r", "e", "c", "o">> \o short_uuid
      resource_group == prefix \o <<"_">> \o data
  IN [short_uuid |-> short_uuid,
      prefix |-> prefix,
      resource_group |-> resource_group,
      account_name |-> AccountName(resource_group, prefix),
      model_name |-> data \o <<"-">> \o <<"a", "l", "s">> \o <<"-", "r", "e", "c", "o", ".", "m", "m", "l">>]

NameUses == {"create_or_update", "list_keys", "endpoint", "Model.register"}

NoUse == [resource_group |-> << >>, name |-> << >>, text |-> << >>]

(***************************************************************************)
(* State.                                                                  *)
(***************************************************************************)
VARIABLES
  pc,            \* the cell (or the call within it) the notebook is at
  runs,          \* how many times the notebook was started
  status,        \* the long-running external operations of this execution
  calls,         \* how often this execution invoked each external call
  raised,        \* the last exception raised to the notebook in this execution
  recovered,     \* the except branch of the deployment cell ran
  wsCount,       \* workspaces named workspace_name
  acctCount,     \* database accounts named account_name
  dbCount,       \* databases with id DOCUMENTDB_DATABASE
  collCount,     \* collections with id DOCUMENTDB_COLLECTION
  secretsFile,   \* secrets_path was written
  scriptFile,    \* score_sparkml.py was written
  train,         \* the training set
  model,         \* the fitted model
  store,         \* the documents of the collection
  svc,           \* the web service: "none", "starting", "healthy", "failed"
  clientDefined, \* the script's global client is bound
  collection,    \* the script's global collection
  last,          \* the last call of run seen in this execution, and what it did
  cell,          \* the name cells: the next step of theirs
  names,         \* the name variables of the notebook
  uses           \* the names each call was given, and the endpoint text

vars ==
  <<pc, runs, status, calls, raised, recovered, wsCount, acctCount, dbCount,
    collCount, secretsFile, scriptFile, train, model, store, svc,
    clientDefined, collection, last, cell, names, uses>>

nameVars == <<cell, names, uses>>
pipelineVars ==
  <<pc, runs, status, calls, raised, recovered, wsCount, acctCount, dbCount,
    collCount, secretsFile, scriptFile, train, model, store, svc,
    clientDefined, collection, last>>

cloudVars == <<wsCount, acctCount, dbCount, collCount>>
fileVars == <<secretsFile, scriptFile>>
dataVars == <<train, model, store>>
serviceVars == <<svc, clientDefined, collection, last>>

Ops == {"account", "fit", "write", "image", "aks", "deploy", "call"}

Apis ==
  {"Workspace.create", "create_or_update", "list_keys", "find_database",
   "CreateDatabase", "read_database", "find_collection", "CreateCollection",
   "read_collection", "fit", "write.save", "Model.register",
   "ContainerImage.create", "wait_for_creation", "ComputeTarget.create",
   "wait_for_completion", "deploy_from_image", "wait_for_deployment",
   "Webservice.list", "urlopen"}

NotRaised == [api |-> "none", kind |-> "none"]

Init ==
  /\ pc = "workspace"
  /\ runs = 1
  /\ status = [o \in Ops |-> "idle"]
  /\ calls = [a \in Apis |-> 0]
  /\ raised = NotRaised
  /\ recovered = FALSE
  /\ wsCount = 0
  /\ acctCount = 0
  /\ dbCount = 0
  /\ collCount = 0
  /\ secretsFile = FALSE
  /\ scriptFile = FALSE
  /\ train = {}
  /\ model = NoModel
  /\ store = {}
  /\ svc = "none"
  /\ clientDefined = FALSE
  /\ collection = Unset
  /\ last = NoCall
  /\ cell = "select"
  /\ names = NoNames
  /\ uses = [a \in NameUses |-> NoUse]

(***************************************************************************)
(* The notebook's cells, in order.                                         *)
(***************************************************************************)
Called(S) == calls' = [a \in Apis |-> IF a \in S THEN calls[a] + 1 ELSE calls[a]]

PropagatesButImage(api) ==
  api \notin {"deploy_from_image", "wait_for_deployment", "wait_for_creation"}

\* the only try/except of the notebook is around the deployment
Propagates(api) == api \notin {"deploy_from_image", "wait_for_deployment"}

\* an exception of api: the execution stops unless a handler takes it, and
\* then goes on at next
Raises(api, kind, next) ==
  /\ raised' = [api |-> api, kind |-> kind]
  /\ pc' = IF Propagates(api) THEN "failed" ELSE next

WaitReturnsAtOnce(st) == TRUE

\* wait_for_creation / wait_for_completion / wait_for_deployment return
\* when the operation has reached a final state
WaitReturns(st) == st \in {"done", "failed"}

\* Workspace.create(..., exist_ok=True)
exist_ok == TRUE

\* Workspace.create: an existing workspace is returned when exist_ok, and
\* is an error otherwise
WorkspaceCreate(ok) ==
  /\ pc = "workspace"
  /\ Called({"Workspace.create"})
  /\ IF ~ok THEN Raises("Workspace.create", "error", "account") /\ UNCHANGED wsCount
     ELSE IF wsCount > 0 /\ ~exist_ok
       THEN Raises("Workspace.create", "conflict", "account") /\ UNCHANGED wsCount
       ELSE /\ wsCount' = IF wsCount > 0 THEN wsCount ELSE wsCount + 1
            /\ pc' = "account"
            /\ UNCHANGED raised
  /\ UNCHANGED <<runs, status, recovered, acctCount, dbCount, collCount,
                 fileVars, dataVars, serviceVars>>
  /\ UNCHANGED nameVars

\* client.database_accounts.create_or_update(...)
AccountCreate ==
  /\ pc = "account"
  /\ Called({"create_or_update"})
  /\ status' = [status EXCEPT !["account"] = "running"]
  /\ pc' = "account_wait"
  /\ UNCHANGED <<runs, raised, recovered, cloudVars, fileVars, dataVars, serviceVars>>
  /\ UNCHANGED nameVars

\* account = async_cosmosdb_create.result()
AccountResult(ok) ==
  /\ pc = "account_wait"
  /\ status["account"] = "running"
  /\ IF ok
       THEN /\ status' = [status EXCEPT !["account"] = "done"]
            /\ acctCount' = IF acctCount > 0 THEN acctCount ELSE acctCount + 1
            /\ pc' = "list_keys"
            /\ UNCHANGED raised
       ELSE /\ status' = [status EXCEPT !["account"] = "failed"]
            /\ Raises("create_or_update", "error", "list_keys")
            /\ UNCHANGED acctCount
  /\ UNCHANGED <<runs, calls, recovered, wsCount, dbCount, collCount,
                 fileVars, dataVars, serviceVars>>
  /\ UNCHANGED nameVars

\* my_keys = client.database_accounts.list_keys(...)
ListKeys(ok) ==
  /\ pc = "list_keys"
  /\ Called({"list_keys"})
  /\ IF ok THEN pc' = "database" /\ UNCHANGED raised
           ELSE Raises("list_keys", "error", "database")
  /\ UNCHANGED <<runs, status, recovered, cloudVars, fileVars, dataVars, serviceVars>>
  /\ UNCHANGED nameVars

\* reco_utils.dataset.cosmos_cli.find_database / find_collection: whether
\* one with that id exists
find_database(count) == count > 0
find_collection(count) == count > 0

ShouldCreateAlways(found) == TRUE

\* if find_database(...) == False: create, else: read
ShouldCreate(found) == found = FALSE

\* the database cell: find_database, then CreateDatabase or read_database
DatabaseStep(ok) ==
  /\ pc = "database"
  /\ IF ~ok
       THEN /\ Called({"find_database"})
            /\ Raises("find_database", "error", "collection")
            /\ UNCHANGED dbCount
       ELSE IF ShouldCreate(find_database(dbCount))
         THEN /\ Called({"find_database", "CreateDatabase"})
              /\ IF dbCount > 0
                   THEN Raises("CreateDatabase", "conflict", "collection")
                        /\ UNCHANGED dbCount
                   ELSE dbCount' = dbCount + 1 /\ pc' = "collection"
                        /\ UNCHANGED raised
         ELSE /\ Called({"find_database", "read_database"})
              /\ pc' = "collection"
              /\ UNCHANGED <<raised, dbCount>>
  /\ UNCHANGED <<runs, status, recovered, wsCount, acctCount, collCount,
                 fileVars, dataVars, serviceVars>>
  /\ UNCHANGED nameVars

\* the collection cell: find_collection, then CreateCollection or
\* read_collection
CollectionStep(ok) ==
  /\ pc = "collection"
  /\ IF ~ok
       THEN /\ Called({"find_collection"})
            /\ Raises("find_collection", "error", "secrets")
            /\ UNCHANGED collCount
       ELSE IF ShouldCreate(find_collection(collCount))
         THEN /\ Called({"find_collection", "CreateCollection"})
              /\ IF collCount > 0
                   THEN Raises("CreateCollection", "conflict", "secrets")
                        /\ UNCHANGED collCount
                   ELSE collCount' = collCount + 1 /\ pc' = "secrets"
                        /\ UNCHANGED raised
         ELSE /\ Called({"find_collection", "read_collection"})
              /\ pc' = "secrets"
              /\ UNCHANGED <<raised, collCount>>
  /\ UNCHANGED <<runs, status, recovered, wsCount, acctCount, dbCount,
                 fileVars, dataVars, serviceVars>>
  /\ UNCHANGED nameVars

\* json.dump(secrets, file)
WriteSecrets ==
  /\ pc = "secrets"
  /\ secretsFile' = TRUE
  /\ pc' = "split"
  /\ UNCHANGED <<runs, status, calls, raised, recovered, cloudVars, scriptFile,
                 dataVars, serviceVars>>
  /\ UNCHANGED nameVars

\* train, test = spark_random_split(data, ratio=0.75, seed=42)
Split(tr) ==
  /\ pc = "split"
  /\ train' = tr
  /\ pc' = "fit"
  /\ UNCHANGED <<runs, status, calls, raised, recovered, cloudVars, fileVars,
                 model, store, serviceVars>>
  /\ UNCHANGED nameVars

\* model = als.fit(train): the call is entered ...
FitCall ==
  /\ pc = "fit"
  /\ Called({"fit"})
  /\ status' = [status EXCEPT !["fit"] = "running"]
  /\ pc' = "fit_wait"
  /\ UNCHANGED <<runs, raised, recovered, cloudVars, fileVars, dataVars, serviceVars>>
  /\ UNCHANGED nameVars

\* ... and returns the model
FitReturn(off, ok) ==
  /\ pc = "fit_wait"
  /\ status["fit"] = "running"
  /\ IF ok
       THEN /\ status' = [status EXCEPT !["fit"] = "done"]
            /\ model' = Fit(train, off)
            /\ pc' = "write"
            /\ UNCHANGED raised
       ELSE /\ status' = [status EXCEPT !["fit"] = "failed"]
            /\ Raises("fit", "error", "write")
            /\ UNCHANGED model
  /\ UNCHANGED <<runs, calls, recovered, cloudVars, fileVars, train, store,
                 serviceVars>>
  /\ UNCHANGED nameVars

\* the documents of recs...select("id", "recommendations." + itemCol)
RecDocuments(m) ==
  { ToDocument(secrets, row) : row \in SelectIdItems(recommendForAllUsers(m, NumRecs)) }

\* recs....write.format("com.microsoft.azure.cosmosdb.spark")
\*     .mode('overwrite').options(**writeConfig).save()
\* written: the rows stored before the save ended (all of them, or the
\* save raised)
BatchWrite ==
  /\ pc = "write"
  /\ secretsFile
  /\ Called({"write.save"})
  /\ \E written \in SUBSET RecDocuments(model) :
       /\ store' = Upsert(store, written)
       /\ IF written = RecDocuments(model)
            THEN /\ status' = [status EXCEPT !["write"] = "done"]
                 /\ pc' = "script"
                 /\ UNCHANGED raised
            ELSE /\ status' = [status EXCEPT !["write"] = "failed"]
                 /\ Raises("write.save", "error", "script")
  /\ UNCHANGED <<runs, recovered, cloudVars, fileVars, train, model, serviceVars>>
  /\ UNCHANGED nameVars

\* the scoring script is filled in from the secrets file and written
GenerateScript ==
  /\ pc = "script"
  /\ secretsFile
  /\ scriptFile' = TRUE
  /\ pc' = "register"
  /\ UNCHANGED <<runs, status, calls, raised, recovered, cloudVars, secretsFile,
                 dataVars, serviceVars>>
  /\ UNCHANGED nameVars

\* mymodel = Model.register(...)
Register(ok) ==
  /\ pc = "register"
  /\ Called({"Model.register"})
  /\ IF ok THEN pc' = "image" /\ UNCHANGED raised
           ELSE Raises("Model.register", "error", "image")
  /\ UNCHANGED <<runs, status, recovered, cloudVars, fileVars, dataVars, serviceVars>>
  /\ UNCHANGED nameVars

\* image = ContainerImage.create(...)
ImageCreate(ok) ==
  /\ pc = "image"
  /\ scriptFile
  /\ Called({"ContainerImage.create"})
  /\ IF ok THEN /\ status' = [status EXCEPT !["image"] = "running"]
                /\ pc' = "image_wait"
                /\ UNCHANGED raised
           ELSE /\ status' = [status EXCEPT !["image"] = "failed"]
                /\ Raises("ContainerImage.create", "error", "aks")
  /\ UNCHANGED <<runs, recovered, cloudVars, fileVars, dataVars, serviceVars>>
  /\ UNCHANGED nameVars

\* the build service finishes the image
ImageBuilt(ok) ==
  /\ status["image"] = "running"
  /\ status' = [status EXCEPT !["image"] = IF ok THEN "done" ELSE "failed"]
  /\ UNCHANGED <<pc, runs, calls, raised, recovered, cloudVars, fileVars,
                 dataVars, serviceVars>>
  /\ UNCHANGED nameVars

\* image.wait_for_creation(show_output = True): raises when the build failed
ImageWait ==
  /\ pc = "image_wait"
  /\ WaitReturns(status["image"])
  /\ Called({"wait_for_creation"})
  /\ IF status["image"] = "failed"
       THEN Raises("wait_for_creation", "error", "aks")
       ELSE pc' = "aks" /\ UNCHANGED raised
  /\ UNCHANGED <<runs, status, recovered, cloudVars, fileVars, dataVars, serviceVars>>
  /\ UNCHANGED nameVars

\* aks_target = ComputeTarget.create(...)
AksCreate(ok) ==
  /\ pc = "aks"
  /\ Called({"ComputeTarget.create"})
  /\ IF ok THEN /\ status' = [status EXCEPT !["aks"] = "running"]
                /\ pc' = "aks_wait"
                /\ UNCHANGED raised
           ELSE /\ status' = [status EXCEPT !["aks"] = "failed"]
                /\ Raises("ComputeTarget.create", "error", "deploy")
  /\ UNCHANGED <<runs, recovered, cloudVars, fileVars, dataVars, serviceVars>>
  /\ UNCHANGED nameVars

\* the cluster provisioning ends
AksProvisioned(ok) ==
  /\ status["aks"] = "running"
  /\ status' = [status EXCEPT !["aks"] = IF ok THEN "done" ELSE "failed"]
  /\ UNCHANGED <<pc, runs, calls, raised, recovered, cloudVars, fileVars,
                 dataVars, serviceVars>>
  /\ UNCHANGED nameVars

\* aks_target.wait_for_completion(show_output = True), then the cell prints
\* provisioning_state and provisioning_errors
AksWait ==
  /\ pc = "aks_wait"
  /\ WaitReturns(status["aks"])
  /\ Called({"wait_for_completion"})
  /\ pc' = "deploy"
  /\ UNCHANGED <<runs, status, raised, recovered, cloudVars, fileVars, dataVars,
                 serviceVars>>
  /\ UNCHANGED nameVars

\* except Exception: aks_service = Webservice.list(ws)[0]
\* (api raised inside the try block)
DeployExcept(api) ==
  IF Propagates(api)
    THEN raised' = [api |-> api, kind |-> "error"] /\ pc' = "failed"
         /\ UNCHANGED recovered
    ELSE IF svc = "none"
      THEN /\ raised' = [api |-> "Webservice.list", kind |-> "error"]
           /\ pc' = "failed"
           /\ UNCHANGED recovered
      ELSE /\ raised' = [api |-> api, kind |-> "error"]
           /\ pc' = "call"
           /\ recovered' = TRUE

\* aks_service = Webservice.deploy_from_image(...): raises when a service
\* of that name exists or the image or the cluster is not usable, else the
\* deployment starts
DeployCall(ok) ==
  /\ pc = "deploy"
  /\ IF ok /\ svc = "none" /\ status["image"] = "done" /\ status["aks"] = "done"
       THEN /\ Called({"deploy_from_image"})
            /\ status' = [status EXCEPT !["deploy"] = "running"]
            /\ svc' = "starting"
            /\ pc' = "deploy_wait"
            /\ UNCHANGED <<raised, recovered>>
       ELSE /\ Called({"deploy_from_image", "Webservice.list"})
            /\ status' = [status EXCEPT !["deploy"] = "failed"]
            /\ DeployExcept("deploy_from_image")
            /\ UNCHANGED svc
  /\ UNCHANGED <<runs, cloudVars, fileVars, dataVars, clientDefined, collection, last>>
  /\ UNCHANGED nameVars

\* the host of the service loads the script and calls init() once
ServiceInit(outcome) ==
  /\ svc = "starting"
  /\ collection = Unset
  /\ clientDefined' = init(outcome).client
  /\ collection' = init(outcome).collection
  /\ UNCHANGED <<pc, runs, status, calls, raised, recovered, cloudVars, fileVars,
                 dataVars, svc, last>>
  /\ UNCHANGED nameVars

\* the deployment ends, after init returned
DeployFinish(ok) ==
  /\ status["deploy"] = "running"
  /\ collection # Unset
  /\ status' = [status EXCEPT !["deploy"] = IF ok THEN "done" ELSE "failed"]
  /\ svc' = IF ok THEN "healthy" ELSE "failed"
  /\ UNCHANGED <<pc, runs, calls, raised, recovered, cloudVars, fileVars, dataVars,
                 clientDefined, collection, last>>
  /\ UNCHANGED nameVars

\* aks_service.wait_for_deployment(show_output=True): raises when the
\* deployment failed
DeployWait ==
  /\ pc = "deploy_wait"
  /\ WaitReturns(status["deploy"])
  /\ IF status["deploy"] = "failed"
       THEN /\ Called({"wait_for_deployment", "Webservice.list"})
            /\ DeployExcept("wait_for_deployment")
       ELSE /\ Called({"wait_for_deployment"})
            /\ pc' = "call"
            /\ UNCHANGED <<raised, recovered>>
  /\ UNCHANGED <<runs, status, cloudVars, fileVars, dataVars, serviceVars>>
  /\ UNCHANGED nameVars

\* whether the store may refuse a read of the script: only when init could
\* not read the collection with the client it built
DownChoices ==
  IF clientDefined /\ collection.t = "exc" THEN BOOLEAN ELSE {FALSE}

\* urllib.request.urlopen(req) with input_data: the service calls
\* run(input_data)
CallService ==
  /\ pc = "call"
  /\ Called({"urlopen"})
  /\ status' = [status EXCEPT !["call"] = "done"]
  /\ IF svc = "healthy"
       THEN \E down \in DownChoices :
              /\ last' = run(input_data, clientDefined, store, down)
              /\ IF last'.propagated
                   THEN Raises("urlopen", "error", "done")
                   ELSE pc' = "done" /\ UNCHANGED raised
       ELSE Raises("urlopen", "error", "done") /\ UNCHANGED last
  /\ UNCHANGED <<runs, recovered, cloudVars, fileVars, dataVars, svc,
                 clientDefined, collection>>
  /\ UNCHANGED nameVars

\* another client of the deployed service posts input_json
Request(input_json) ==
  /\ svc = "healthy"
  /\ \E down \in DownChoices :
       last' = run(input_json, clientDefined, store, down)
  /\ UNCHANGED <<pc, runs, status, calls, raised, recovered, cloudVars, fileVars,
                 dataVars, svc, clientDefined, collection>>
  /\ UNCHANGED nameVars

\* run called on the loaded script before init was
RunBeforeInit(input_json) ==
  /\ svc = "starting"
  /\ collection = Unset
  /\ last' = run(input_json, clientDefined, store, FALSE)
  /\ UNCHANGED <<pc, runs, status, calls, raised, recovered, cloudVars, fileVars,
                 dataVars, svc, clientDefined, collection>>
  /\ UNCHANGED nameVars

\* the notebook is executed again from its first cell: its variables and
\* what it has seen start afresh; the cloud resources, the files and the
\* service stay
Restart ==
  /\ pc \in {"done", "failed"}
  /\ runs < MaxRuns
  /\ runs' = runs + 1
  /\ pc' = "workspace"
  /\ status' = [o \in Ops |-> "idle"]
  /\ calls' = [a \in Apis |-> 0]
  /\ raised' = NotRaised
  /\ recovered' = FALSE
  /\ train' = {}
  /\ model' = NoModel
  /\ last' = NoCall
  /\ UNCHANGED <<cloudVars, fileVars, store, svc, clientDefined, collection>>
  /\ UNCHANGED nameVars

Next ==
  \/ \E ok \in BOOLEAN : WorkspaceCreate(ok)
  \/ AccountCreate
  \/ \E ok \in BOOLEAN : AccountResult(ok)
  \/ \E ok \in BOOLEAN : ListKeys(ok)
  \/ \E ok \in BOOLEAN : DatabaseStep(ok)
  \/ \E ok \in BOOLEAN : CollectionStep(ok)
  \/ WriteSecrets
  \/ \E tr \in Splits : Split(tr)
  \/ FitCall
  \/ \E off \in 0..MaxOffset, ok \in BOOLEAN : FitReturn(off, ok)
  \/ BatchWrite
  \/ GenerateScript
  \/ \E ok \in BOOLEAN : Register(ok)
  \/ \E ok \in BOOLEAN : ImageCreate(ok)
  \/ \E ok \in BOOLEAN : ImageBuilt(ok)
  \/ ImageWait
  \/ \E ok \in BOOLEAN : AksCreate(ok)
  \/ \E ok \in BOOLEAN : AksProvisioned(ok)
  \/ AksWait
  \/ \E ok \in BOOLEAN : DeployCall(ok)
  \/ \E outcome \in InitOutcomes : ServiceInit(outcome)
  \/ \E ok \in BOOLEAN : DeployFinish(ok)
  \/ DeployWait
  \/ CallService
  \/ \E input_json \in Inputs : Request(input_json)
  \/ Restart

Spec == Init /\ [][Next]_vars

\* the same, with run also called before init
NextDirect ==
  \/ Next
  \/ \E input_json \in Inputs : RunBeforeInit(input_json)

SpecDirect == Init /\ [][NextDirect]_vars
(***************************************************************************)
(* The name cells and the calls that are given the names.                  *)
(***************************************************************************)
\* the cells "Select the services names" and "Resource group and workspace"
SelectNames(u) ==
  /\ cell = "select"
  /\ names' = SelectedNames(u)
  /\ cell' = "create_or_update"
  /\ UNCHANGED <<uses, pipelineVars>>

Use(api, resource_group, name, text) ==
  uses' = [uses EXCEPT ![api] =
             [resource_group |-> resource_group, name |-> name, text |-> text]]

\* client.database_accounts.create_or_update(resource_group, account_name, ..)
PassCreateOrUpdate ==
  /\ cell = "create_or_update"
  /\ Use("create_or_update", names.resource_group, names.account_name, << >>)
  /\ cell' = "list_keys"
  /\ UNCHANGED <<names, pipelineVars>>

\* client.database_accounts.list_keys(resource_group, account_name)
PassListKeys ==
  /\ cell = "list_keys"
  /\ Use("list_keys", names.resource_group, names.account_name, << >>)
  /\ cell' = "endpoint"
  /\ UNCHANGED <<names, pipelineVars>>

\* endpoint = "https://" + account_name + ".documents.azure.com:443/"
BuildEndpoint ==
  /\ cell = "endpoint"
  /\ Use("endpoint", << >>, names.account_name, Endpoint(names.account_name))
  /\ cell' = "Model.register"
  /\ UNCHANGED <<names, pipelineVars>>

\* Model.register(model_path = model_name, model_name = model_name, ..)
PassRegister ==
  /\ cell = "Model.register"
  /\ Use("Model.register", << >>, names.model_name, names.model_name)
  /\ cell' = "end"
  /\ UNCHANGED <<names, pipelineVars>>

NextNames ==
  \/ \E u \in Uuid4 : SelectNames(u)
  \/ PassCreateOrUpdate
  \/ PassListKeys
  \/ BuildEndpoint
  \/ PassRegister

SpecNames == Init /\ [][NextNames]_vars
(***************************************************************************)
(* Properties.                                                             *)
(***************************************************************************)
\* a step in which run was called
RunCalled == last' # last /\ last'.t = "call"

\* what run must return for the request id once it holds a client: the
\* string form of the stored document, or the message of the read's error
RunAnswers(id) ==
  LET key == str(id)
      link == "dbs/recommendations/colls/user_recommendations_als/docs/" \o key
      r == ReadDocument(store, link, key)
  IN /\ last'.lookups = << [link |-> link, pk |-> key] >>
     /\ last'.queries = 0
     /\ ~last'.propagated
     /\ \/ last'.response = json_dumps(IF r.ok THEN Repr(r.v) ELSE r.msg)
        \/ collection.t = "exc" /\ last'.response = json_dumps("Status code: 401")

C2_RunNeverRaises ==
  last.t = "call" =>
    /\ ~last.propagated
    /\ last.response # ""
    /\ last.error # "" => last.response = json_dumps(last.error)
    /\ last.input.json.t = "malformed" =>
         last.response = "\"Expecting value: line 1 column 1 (char 0)\""
    /\ (DecodeId(last.input).ok /\ last.lookups = << >>) =>
         last.response = "\"name 'client' is not defined\""
    /\ (~DecodeId(last.input).ok /\ DecodeId(last.input).type = "KeyError"
          /\ last.input.json.t = "list") =>
         last.response = "\"'id'\""

\* run was called before init and answered with the NameError's message
C2_Witness ==
  /\ last.t = "call"
  /\ collection = Unset
  /\ last.error = "name 'client' is not defined"
  /\ last.response = json_dumps(last.error)

\* C3 (as stated): after an init that caught an exception E, every call of
\* run returns json.dumps(str(E)).
C3_InitErrorReturned ==
  (last.t = "call" /\ collection.t = "exc") =>
    last.response = json_dumps(collection.msg)

\* a step in which the batch write of section 3.1 ran
WriteRan == calls'["write.save"] = calls["write.save"] + 1

\* C4: last write wins per user key.  A batch write leaves, under every key
\* it wrote, exactly the record of this run; every record of the store is
\* wholly this run's or wholly an earlier run's (never a merge); a key this
\* run did not write keeps its record; and no key holds two versions.
C4_LastWriteWins ==
  [][ WriteRan =>
        LET new == RecDocuments(model) IN
        /\ \A d \in store' : d \in store \/ d \in new
        /\ \A d \in store', e \in store' : d.id = e.id => d = e
        /\ status'["write"] = "done" => new \subseteq store'
        /\ \A d \in store : (\A n \in new : n.id # d.id) => d \in store'
        /\ \A d \in store \ store' : \E n \in new \cap store' : n.id = d.id
    ]_vars

\* a second run has written: the store holds a record of this run and a
\* record that an earlier run wrote under a key this run did not write
C4_Witness ==
  /\ runs = 2
  /\ status["write"] = "done"
  /\ \E d \in store : d \in RecDocuments(model)
  /\ \E d \in store : d \notin RecDocuments(model)

\* C5: every stored record is the string form of a user identifier (also
\* its partition key) with a list of at most 10 item identifiers, and no
\* two records have the same identifier.
C5_RecordShape ==
  /\ \A d \in store :
       /\ \E u \in Users : d.id = IntToString(u)
       /\ d.pk = d.id
       /\ Len(d.MovieId) <= 10
       /\ \A j \in 1..Len(d.MovieId) : d.MovieId[j] \in Items
  /\ \A d \in store, e \in store : d.id = e.id => d = e

\* the store holds a full list of 10 and a shorter one
C5_Witness ==
  /\ \E d \in store : Len(d.MovieId) = 10
  /\ \E d \in store : Len(d.MovieId) < 10

\* the request body asks for user u: its id is u or the decimal string of u
RequestsUser(input_json, u) ==
  /\ DecodeId(input_json).ok
  /\ LET id == DecodeId(input_json).v IN
       \/ id.t = "int" /\ id.n = u
       \/ id.t = "str" /\ id.chars = IntToString(u)

Final == {"done", "failed"}

\* C7: one operation at a time, each step after the one before it ended:
\* the write after the fit, the script after the secrets file, the
\* deployment after image build and cluster provisioning, the HTTP request
\* after the deployment.
C7_LinearBlocking ==
  /\ Cardinality({ o \in Ops : status[o] = "running" }) <= 1
  /\ status["write"] # "idle" => status["fit"] = "done"
  /\ scriptFile => secretsFile
  /\ status["image"] # "idle" => scriptFile
  /\ status["aks"] # "idle" => status["image"] \in Final
  /\ status["deploy"] # "idle" =>
       status["image"] \in Final /\ status["aks"] \in Final
  /\ status["call"] # "idle" => status["deploy"] \in Final

\* the whole notebook ran: deployed, then called
C7_Witness ==
  /\ pc = "done"
  /\ status["deploy"] = "done"
  /\ status["call"] = "done"

AfterDatabase ==
  {"collection", "secrets", "split", "fit", "fit_wait", "write", "script",
   "register", "image", "image_wait", "aks", "aks_wait", "deploy",
   "deploy_wait", "call", "done"}

DeployApis == {"deploy_from_image", "wait_for_deployment"}

\* C8 (as stated): no step branches, retries or recovers: every call is
\* made at most once, the calls made do not depend on what an earlier call
\* found (the database cell always creates), and an exception ends the
\* execution.
C8_NoBranchNoRecovery ==
  /\ \A a \in Apis : calls[a] <= 1
  /\ pc \in AfterDatabase => calls["CreateDatabase"] = 1
  /\ raised.api # "none" => pc = "failed"
  /\ ~recovered

\* C8 (as amended): no step retries (every call is made at most once per
\* execution) and an exception of any call outside the deployment cell ends
\* the execution; the database and collection cells branch on what
\* find_database / find_collection found (exactly one of create and read is
\* called), and only the deployment cell recovers, after its own exception.
C8_NoRetry ==
  /\ \A a \in Apis : calls[a] <= 1
  /\ pc \in AfterDatabase =>
       calls["CreateDatabase"] + calls["read_database"] = 1
  /\ raised.api \notin ({"none"} \cup DeployApis) => pc = "failed"
  /\ recovered => status["deploy"] = "failed" /\ calls["Webservice.list"] = 1

\* the deployment raised, the first listed service was taken instead, and
\* the execution went on to its end
C8_Witness ==
  /\ recovered
  /\ raised.api \in DeployApis
  /\ pc = "done"

AfterCollection == AfterDatabase \ {"collection"}

\* C9: create-if-absent.  Workspace, database and collection are created
\* only when absent and read otherwise; however often the cells run there
\* is one of each, and no call fails because the resource exists.
C9_CreateIfAbsent ==
  /\ [](/\ wsCount <= 1 /\ dbCount <= 1 /\ collCount <= 1
        /\ raised.kind # "conflict"
        /\ pc \in AfterCollection =>
             wsCount = 1 /\ dbCount = 1 /\ collCount = 1)
  /\ [][ /\ calls'["CreateDatabase"] = calls["CreateDatabase"] + 1 => dbCount = 0
         /\ calls'["read_database"] = calls["read_database"] + 1 => dbCount = 1
         /\ calls'["CreateCollection"] = calls["CreateCollection"] + 1 => collCount = 0
         /\ calls'["read_collection"] = calls["read_collection"] + 1 => collCount = 1
         /\ wsCount' # wsCount => wsCount = 0
         /\ dbCount' # dbCount => dbCount = 0
         /\ collCount' # collCount => collCount = 0 ]_vars

\* a second execution found the database and the collection and read them
C9_Witness ==
  /\ runs = 2
  /\ calls["read_database"] = 1
  /\ calls["read_collection"] = 1
  /\ calls["CreateDatabase"] = 0
  /\ wsCount = 1 /\ dbCount = 1 /\ collCount = 1

\* C10 (as stated): the list persisted for a user holds no item the user
\* rated in the training set.
C10_NoRatedItemPersisted ==
  status["write"] = "done" =>
    \A d \in RecDocuments(model) \cap store : \A u \in Users :
      d.id = IntToString(u) =>
        \A j \in 1..Len(d.MovieId) : <<u, d.MovieId[j]>> \notin train

\* C11: top_all is the scored cross join of the training users and the
\* training items without the pairs of the training set: no pair of train is
\* in it, every other scored pair is, and every row of it is a scored row.
C11_SeenItemsRemoved ==
  status["fit"] = "done" =>
    LET users == { r[1] : r \in train }
        items == { r[2] : r \in train }
    IN top_all(train, model) =
         { [UserId |-> p[1], MovieId |-> p[2],
            prediction |-> Prediction(model, p[1], p[2])]
           : p \in (users \X items) \ train }

\* a model was fitted on ratings of both users, and top_all keeps unseen
\* pairs of both
C11_Witness ==
  /\ status["fit"] = "done"
  /\ \A u \in Users : \E r \in train : r[1] = u
  /\ \A u \in Users : \E r \in top_all(train, model) : r.UserId = u

\* C12: the body the client snippet posts is in the envelope run decodes:
\* decoding it gives the id "496" and the call goes on to the lookup (under
\* the key "496" when a client is bound); a body that is the JSON object
\* itself fails at [0] and never reaches the lookup.
C12_ClientEnvelopeDecodes ==
  [][ last'.t = "call" =>
      /\ (pc = "call" /\ svc = "healthy" /\ status'["call"] = "done") =>
           last'.input.chars = "[\"{\\\"id\\\":\\\"496\\\"}\"]"
      /\ last'.input.chars = "[\"{\\\"id\\\":\\\"496\\\"}\"]" =>
           /\ DecodeId(last'.input).ok
           /\ DecodeId(last'.input).v = PyStr("496", NotJson)
           /\ last'.error \in {"", "name 'client' is not defined",
                               "Status code: 404", "Status code: 401"}
           /\ last'.lookups # << >> => last'.lookups[1].pk = "496"
           /\ last'.lookups = << >> =>
                last'.error = "name 'client' is not defined"
      /\ last'.input.chars = "{\"id\":\"496\"}" =>
           /\ ~DecodeId(last'.input).ok
           /\ last'.lookups = << >>
           /\ last'.response = "\"0\"" ]_vars

\* the notebook's HTTP call was answered by a lookup under "496"
C12_Witness ==
  /\ status["call"] = "done"
  /\ last.t = "call"
  /\ last.input = input_data
  /\ Len(last.lookups) = 1
  /\ last.lookups[1].pk = "496"
  /\ last.error = ""

\* the characters of s
Chars(s) == { s[i] : i \in 1..Len(s) }

Letters ==
  {"a", "b", "c", "d", "e", "f", "g", "h", "i", "j", "k", "l", "m", "n", "o",
   "p", "q", "r", "s", "t", "u", "v", "w", "x", "y", "z",
   "A", "B", "C", "D", "E", "F", "G", "H", "I", "J", "K", "L", "M", "N", "O",
   "P", "Q", "R", "S", "T", "U", "V", "W", "X", "Y", "Z"}

Numerals == {"0", "1", "2", "3", "4", "5", "6", "7", "8", "9"}

Passed(api) == uses[api].name # << >>

\* C13: the name Model.register is given as the asset's name consists of
\* letters and numerals only, has no space, and is under 30 characters.
C13_AssetNameRule ==
  Passed("Model.register") =>
    /\ Chars(uses["Model.register"].name) \subseteq Letters \cup Numerals
    /\ " " \notin Chars(uses["Model.register"].name)
    /\ Len(uses["Model.register"].name) < 30

\* C14: whatever the UUID, the prefix is "reco" and its first four
\* characters, account_name has no "_" and fewer than 31 characters, and
\* create_or_update, list_keys and the endpoint text are given that
\* account_name.
C14_AccountNameRule ==
  cell # "select" =>
    /\ \E u \in Uuid4 :
         /\ names.short_uuid = SubSeq(u, 1, 4)
         /\ names.prefix = <<"r", "e", "c", "o">> \o names.short_uuid
    /\ "_" \notin Chars(names.account_name)
    /\ Len(names.account_name) < 31
    /\ names.account_name # << >>
    /\ \A api \in {"create_or_update", "list_keys", "endpoint"} :
         Passed(api) => uses[api].name = names.account_name
    /\ \A api \in {"create_or_update", "list_keys"} :
         Passed(api) => uses[api].resource_group = names.resource_group
    /\ Passed("endpoint") =>
         /\ Len(uses["endpoint"].text) = Len(names.account_name) + 33
         /\ SubSeq(uses["endpoint"].text, 1, 8) =
              <<"h", "t", "t", "p", "s", ":", "/", "/">>
         /\ SubSeq(uses["endpoint"].text, 9, 8 + Len(names.account_name)) =
              names.account_name
         /\ SubSeq(uses["endpoint"].text, 9 + Len(names.account_name),
                   21 + Len(names.account_name)) =
              <<".", "d", "o", "c", "u", "m", "e", "n", "t", "s", ".", "a", "z">>

\* a prefix with a letter and a numeral from the UUID, its account created,
\* its keys listed and its endpoint built
C14_Witness ==
  /\ Passed("create_or_update")
  /\ Passed("list_keys")
  /\ Passed("endpoint")
  /\ Chars(names.short_uuid) \cap Letters # {}
  /\ Chars(names.short_uuid) \cap Numerals # {}
  /\ "_" \in Chars(names.resource_group)

====
